---- MODULE Spec2Model ----
(***************************************************************************)
(* A model of the PhotoMaker predictor (src/predict.py): the per-request   *)
(* handler Predictor.predict, stage by stage, and the arithmetic it does   *)
(* on its inputs.  The pretrained components (tokenizer, face detector,    *)
(* diffusion pipeline, safety checker) are modelled by what predict() sees *)
(* of them: token ids, a list of faces per photo, a list of generated      *)
(* images, a list of NSFW flags.                                           *)
(***************************************************************************)
EXTENDS Integers, Sequences, FiniteSets, TLC

(* ------------------------------ bounds -------------------------------- *)

\* Longest prompt, in words.
MaxPromptLen == 2
\* Longest negative prompt, in words.
MaxNegLen == 1
\* Most faces the detector finds in one photo.
MaxFaces == 2
\* Most optional photos (input_image2..4) supplied with one request.
MaxExtraImages == 1
\* Largest num_outputs requested (the code allows up to 4).
MaxOutputs == 2
\* The number of intervals the sampled random seeds cut 0..MAX_SEED into.
SeedSamples == 2

(* ------------------------- program constants -------------------------- *)

\* np.iinfo(np.int32).max
MAX_SEED == 2147483647
DEFAULT_STYLE_NAME == "Photographic (Default)"
\* pipe.trigger_word, set by load_photomaker_adapter(trigger_word="img")
trigger_word == "img"
\* Python's None, where the value is otherwise a non-negative integer.
None == -1
\* Bounds of the num_steps and style_strength_ratio inputs (ge=, le=).
MinSteps == 1
MaxSteps == 100
MinRatio == 15
MaxRatio == 50
\* The cap on start_merge_step.
MergeCap == 30
\* Significand width of a Python float (IEEE 754 binary64).
Precision == 53

VARIABLES
    pc,               \* where the handler is: idle, or the stage just finished
    req,              \* the arguments of the running call
    seed,             \* local `seed` after randomisation
    styled,           \* locals `prompt`, `negative_prompt` after apply_style
    input_id_images,  \* local list of loaded photos
    id_embeds,        \* local stacked face embeddings
    pipe_args,        \* the keyword arguments self.pipe was called with
    images,           \* the images the pipeline returned
    has_nsfw_content, \* the safety checker's flags
    output_paths,     \* the list predict() returns
    error,            \* the ValueError raised, "" when none
    calls,            \* external components invoked by this call, in order
    outputs,          \* the 'outputs' folder: whether it exists, its files
    start_merge_step  \* local `start_merge_step`

vars == <<pc, req, seed, styled, input_id_images, id_embeds, pipe_args, images,
          has_nsfw_content, output_paths, error, calls, outputs,
          start_merge_step>>

(* ----------------------------- sequences ------------------------------ *)

Last(s) == s[Len(s)]
Front(s) == SubSeq(s, 1, Len(s) - 1)
Range(s) == {s[i] : i \in 1..Len(s)}

RECURSIVE Count(_, _)
\* list.count(x)
Count(s, x) ==
    IF s = <<>> THEN 0
    ELSE (IF Head(s) = x THEN 1 ELSE 0) + Count(Tail(s), x)

RECURSIVE Flatten(_)
Flatten(ss) == IF ss = <<>> THEN <<>> ELSE Head(ss) \o Flatten(Tail(ss))

(* ----------------------------- tokenizer ------------------------------ *)

Words == {trigger_word, "man"}

\* tokenizer.convert_tokens_to_ids: a word's id in the vocabulary.
convert_tokens_to_ids(w) == IF w = trigger_word THEN 1 ELSE 2

\* tokenizer.encode: start-of-text, one id per word, end-of-text.
encode(text) ==
    <<0>> \o [i \in 1..Len(text) |-> convert_tokens_to_ids(text[i])] \o <<3>>

image_token_id == convert_tokens_to_ids(trigger_word)

(* ------------------------------- styles ------------------------------- *)

\* gradio_demo.style_template.styles: name -> (prompt template, negative).
styles ==
    [s \in {"(No style)", DEFAULT_STYLE_NAME} |->
        IF s = "(No style)"
        THEN <<(<<"{prompt}">>), (<<>>)>>
        ELSE <<(<<"cinematic", "{prompt}", "photograph">>), (<<"drawing">>)>>]

STYLE_NAMES == DOMAIN styles

\* apply_style: p.replace("{prompt}", positive), n + " " + negative
apply_style(style_name, positive, negative) ==
    LET t == IF style_name \in DOMAIN styles THEN styles[style_name]
             ELSE styles[DEFAULT_STYLE_NAME]
        p == t[1]
        n == t[2]
    IN  << Flatten([i \in 1..Len(p) |->
                      IF p[i] = "{prompt}" THEN positive ELSE <<p[i]>>]),
           n \o negative >>

(* --------------------------- face detection --------------------------- *)

\* A photo is identified by the number of faces the detector finds in it:
\* none, one, or several.
Photos == {0, 1, MaxFaces}

\* analyze_faces(face_detector, img): the faces found, each with an embedding.
analyze_faces(img) == [j \in 1..img |-> [embedding |-> <<img, j>>]]

\* The slots of a request, in the order predict() reads them.
Slots(r) == <<r.input_image, r.input_image2, r.input_image3, r.input_image4>>

RECURSIVE LoadImagesUntilGap(_)
RECURSIVE LoadImages(_)
\* LoadImages with the loop ended by the first empty slot.
LoadImagesUntilGap(slots) ==
    IF slots = <<>> \/ Head(slots) = None THEN <<>>
    ELSE <<Head(slots)>> \o LoadImagesUntilGap(Tail(slots))

\* "for maybe_image in [...]: if maybe_image: input_id_images.append(...)"
LoadImages(slots) ==
    IF slots = <<>> THEN <<>>
    ELSE (IF Head(slots) # None THEN <<Head(slots)>> ELSE <<>>)
         \o LoadImages(Tail(slots))

\* EmbedsOf with the embedding of every face appended, not only faces[0].
EmbedsOfEveryFace(img) ==
    [j \in 1..Len(analyze_faces(img)) |-> analyze_faces(img)[j].embedding]

\* "if len(faces) > 0: id_embed_list.append(faces[0]['embedding'])"
EmbedsOf(img) ==
    LET faces == analyze_faces(img)
    IN  IF Len(faces) > 0 THEN <<faces[1].embedding>> ELSE <<>>

RECURSIVE EmbedList(_)
\* The loop over input_id_images that fills id_embed_list.
EmbedList(imgs) ==
    IF imgs = <<>> THEN <<>>
    ELSE EmbedsOf(Head(imgs)) \o EmbedList(Tail(imgs))

\* NoFaceError with the comparison "< 0", which no list satisfies.
NoFaceErrorNever(id_embed_list) ==
    IF Len(id_embed_list) < 0 THEN "No face detected" ELSE ""

\* "if len(id_embed_list) == 0: raise ValueError"
NoFaceError(id_embed_list) ==
    IF Len(id_embed_list) = 0 THEN "No face detected" ELSE ""

(* ----------------------------- validation ----------------------------- *)

\* TriggerError without the check for several trigger words.
TriggerErrorSingleCheck(input_ids) ==
    IF Count(input_ids, image_token_id) = 0
    THEN "Cannot find the trigger word"
    ELSE ""

\* The two checks of the prompt's token ids.
TriggerError(input_ids) ==
    IF Count(input_ids, image_token_id) = 0
    THEN "Cannot find the trigger word"
    ELSE IF Count(input_ids, image_token_id) > 1
    THEN "Cannot use multiple trigger words"
    ELSE ""

\* NegativeError with the guard inverted: only an empty text is checked.
NegativeErrorInverted(negative_prompt) ==
    IF negative_prompt = <<>>
       /\ Count(encode(negative_prompt), image_token_id) > 0
    THEN "Cannot use trigger word in negative prompt"
    ELSE ""

\* The check of the negative prompt, skipped when it is empty.
NegativeError(negative_prompt) ==
    IF negative_prompt # <<>>
       /\ Count(encode(negative_prompt), image_token_id) > 0
    THEN "Cannot use trigger word in negative prompt"
    ELSE ""

\* The first check that raises decides the error.
ValidationError(r) ==
    IF TriggerError(encode(r.prompt)) # ""
    THEN TriggerError(encode(r.prompt))
    ELSE NegativeError(r.negative_prompt)

\* StageAfter with the error swallowed: the call goes on.
StageAfterIgnoringError(err, next) == next

\* How often validation invokes the tokenizer: convert_tokens_to_ids and
\* encode for the prompt, and encode again for a non-empty negative prompt
\* when the prompt was not refused.
TokenizerCalls(r) ==
    IF TriggerError(encode(r.prompt)) # "" \/ r.negative_prompt = <<>>
    THEN 2 ELSE 3

\* A raise ends the call: no later stage runs.
StageAfter(err, next) == IF err # "" THEN "done" ELSE next

(* -------------------------------- seed -------------------------------- *)

\* random.randint(0, MAX_SEED) returns any integer of 0..MAX_SEED.  The model
\* draws from a sample of that range: both ends, and SeedSamples - 1 values
\* evenly spaced between them.
RandomSeeds ==
    {0} \cup {MAX_SEED - i * (MAX_SEED \div SeedSamples) : i \in 0..(SeedSamples - 1)}

\* RandomizeSeed written "if not seed": 0 counts as absent.
RandomizeSeedIfFalsy(s, rnd) == IF s = None \/ s = 0 THEN rnd ELSE s

\* "if seed is None: seed = random.randint(0, MAX_SEED)"
RandomizeSeed(s, rnd) == IF s = None THEN rnd ELSE s

(* --------------------------- output folder ---------------------------- *)

\* output_folder / f"image_{i}.png"
OutputPath(i) == <<"outputs", i>>

\* RemoveOldOutputs without the rmtree: the folder is only made sure to exist.
RemoveOldOutputsKeeping(folder) == [exists |-> TRUE, files |-> folder.files]

\* shutil.rmtree if the folder exists, then os.makedirs: an empty folder.
RemoveOldOutputs(folder) ==
    LET removed == IF folder.exists THEN [exists |-> FALSE, files |-> {}]
                   ELSE folder
    IN  [exists |-> TRUE, files |-> removed.files]

\* Kept with "break" for "continue": the first flagged image ends the loop.
KeptBeforeFirstFlag(imgs, disabled, flags) ==
    {i \in 1..Len(imgs) : disabled \/ \A j \in 1..i : ~flags[j]}

\* The indices the saving loop keeps: all of them with the checker disabled,
\* else those not flagged.
Kept(imgs, disabled, flags) ==
    {i \in 1..Len(imgs) : disabled \/ ~flags[i]}

RECURSIVE SavedPaths(_, _, _, _)
\* The saving loop: enumerate(images) from index i (1-based here, the file
\* carries the 0-based index).
SavedPaths(imgs, disabled, flags, i) ==
    IF i > Len(imgs) THEN <<>>
    ELSE (IF i \in Kept(imgs, disabled, flags)
          THEN <<OutputPath(i - 1)>> ELSE <<>>)
         \o SavedPaths(imgs, disabled, flags, i + 1)

(* ------------------------------ requests ------------------------------ *)

Prompts == UNION {[1..n -> Words] : n \in 0..MaxPromptLen}
NegativePrompts == UNION {[1..n -> Words] : n \in 0..MaxNegLen}
SuppliedSeeds == {None, 0, MAX_SEED}

\* The photos of a request, slot by slot: input_image always, and at most
\* MaxExtraImages of the optional ones.
SlotChoices ==
    {s \in Photos \X (Photos \cup {None}) \X (Photos \cup {None})
            \X (Photos \cup {None}) :
        Cardinality({k \in 2..4 : s[k] # None}) <= MaxExtraImages}

Requests ==
    {[input_image |-> s[1],
      input_image2 |-> s[2],
      input_image3 |-> s[3],
      input_image4 |-> s[4],
      prompt |-> p,
      style_name |-> DEFAULT_STYLE_NAME,
      negative_prompt |-> n,
      num_steps |-> 20,
      style_strength_ratio |-> 20,
      num_outputs |-> o,
      seed |-> sd,
      disable_safety_checker |-> d] :
        s \in SlotChoices, p \in Prompts, n \in NegativePrompts,
        o \in 1..MaxOutputs, sd \in SuppliedSeeds, d \in BOOLEAN}

(* --------------------------- start_merge_step ------------------------- *)

\* Python floats are IEEE 754 binary64.  A positive float is modelled as
\* [sig, exp]: sig its significand, a sequence of at most Precision bits, most
\* significant first, and the value is sig * 2^exp.  Each operation computes
\* the exact result and rounds it to nearest, ties to even.

RECURSIVE ToBits(_)
\* The binary digits of a natural number (none for 0).
ToBits(k) == IF k = 0 THEN <<>> ELSE Append(ToBits(k \div 2), k % 2)

RECURSIVE ToInt(_)
ToInt(bits) == IF bits = <<>> THEN 0 ELSE 2 * ToInt(Front(bits)) + Last(bits)

\* Without its leading zeros.
Strip(bits) ==
    LET ones == {i \in 1..Len(bits) : bits[i] = 1}
    IN  IF ones = {} THEN <<>>
        ELSE SubSeq(bits, CHOOSE i \in ones : \A j \in ones : i <= j,
                    Len(bits))

\* bits + 1: the last 0 becomes 1 and the 1s after it 0.
Incr(bits) ==
    LET zeros == {i \in 1..Len(bits) : bits[i] = 0}
        z == CHOOSE i \in zeros : \A j \in zeros : j <= i
    IN  IF zeros = {} THEN <<1>> \o [i \in 1..Len(bits) |-> 0]
        ELSE [i \in 1..Len(bits) |->
                IF i < z THEN bits[i] ELSE IF i = z THEN 1 ELSE 0]

\* The digits taken eight at a time, as numbers below 256 (the first group
\* padded with zeros), and back.
Limbs(bits) ==
    LET n == (Len(bits) + 7) \div 8
        padded == [i \in 1..(8 * n - Len(bits)) |-> 0] \o bits
    IN  [j \in 1..n |-> ToInt(SubSeq(padded, 8 * (j - 1) + 1, 8 * j))]

FromLimbs(limbs) ==
    [i \in 1..(8 * Len(limbs)) |->
        (limbs[((i - 1) \div 8) + 1] \div (2 ^ (7 - ((i - 1) % 8)))) % 2]

RECURSIVE MulLimbs(_, _, _)
\* limbs * n + carry, for a small n
MulLimbs(limbs, n, carry) ==
    IF limbs = <<>> THEN IF carry = 0 THEN <<>> ELSE <<carry>>
    ELSE Append(MulLimbs(Front(limbs), n, (Last(limbs) * n + carry) \div 256),
                (Last(limbs) * n + carry) % 256)

\* bits * n, for a small n
MulSmall(bits, n) == Strip(FromLimbs(MulLimbs(Limbs(bits), n, 0)))

RECURSIVE PowMod(_, _)
\* 2^k modulo den
PowMod(k, den) ==
    IF k = 0 THEN 1 % den
    ELSE LET h == PowMod(k \div 2, den)
         IN  IF k % 2 = 0 THEN (h * h) % den ELSE (2 * h * h) % den

\* The first k binary digits of num / den after the point (num < den), and
\* what is left of num: long division, digit i from the remainder before it.
Fraction(num, den, k) ==
    [bits |-> [i \in 1..k |-> (2 * ((num * PowMod(i - 1, den)) % den)) \div den],
     rem |-> (num * PowMod(k, den)) % den]

\* bits * 2^exp (plus a non-zero rest below the last bit when sticky), rounded
\* to Precision bits.
RoundFloat(bits, sticky, exp) ==
    LET L == Len(bits)
        keep == SubSeq(bits, 1, Precision)
        up == /\ bits[Precision + 1] = 1
              /\ \/ sticky
                 \/ \E i \in (Precision + 2)..L : bits[i] = 1
                 \/ keep[Precision] = 1
    IN  IF L <= Precision THEN [sig |-> bits, exp |-> exp]
        ELSE [sig |-> IF up THEN Incr(keep) ELSE keep,
              exp |-> exp + (L - Precision)]

\* Digits computed after the point before rounding a quotient: enough for
\* the significand, the rounding digit and the leading zeros of a quotient
\* of at least 2^-10.
QuotientBits == Precision + 11

\* float(a) / b for integers a >= 0, b > 0
FloatDiv(a, b) ==
    LET f == Fraction(a % b, b, QuotientBits)
    IN  RoundFloat(Strip(ToBits(a \div b) \o f.bits), f.rem # 0,
                   0 - QuotientBits)

\* x * n for a float x and an integer n
FloatMul(x, n) == RoundFloat(MulSmall(x.sig, n), FALSE, x.exp)

\* int(x): the digits before the point
Trunc(x) ==
    IF x.exp >= 0 THEN ToInt(x.sig \o [i \in 1..x.exp |-> 0])
    ELSE IF Len(x.sig) + x.exp <= 0 THEN 0
    ELSE ToInt(SubSeq(x.sig, 1, Len(x.sig) + x.exp))

\* The divisor that turns the ratio, a percentage, into a fraction.
Percent == 100

\* "start_merge_step = int(float(style_strength_ratio) / 100 * num_steps)
\*  if start_merge_step > 30: start_merge_step = 30"
StartMergeStep(ratio, num_steps) ==
    LET m == Trunc(FloatMul(FloatDiv(ratio, Percent), num_steps))
    IN  IF m > MergeCap THEN MergeCap ELSE m

(* ------------------------------ pipeline ------------------------------ *)

\* The keyword arguments of the self.pipe(...) call.
PipeArgs(r, st, imgs, embeds, sd, merge) ==
    [prompt |-> st[1],
     input_id_images |-> imgs,
     negative_prompt |-> st[2],
     num_images_per_prompt |-> r.num_outputs,
     num_inference_steps |-> r.num_steps,
     start_merge_step |-> merge,
     generator |-> sd,
     id_embeds |-> embeds]

\* self.pipe(...).images: num_images_per_prompt images, in generation order.
Generated(args) == [i \in 1..args.num_images_per_prompt |-> i - 1]

(* ------------------------------- actions ------------------------------ *)

\* No call is running: there is no request and the pipeline is not called.
NoRequest == [running |-> FALSE]
NotCalled == [called |-> FALSE]

NoLocals ==
    /\ req = NoRequest
    /\ seed = None
    /\ styled = <<>>
    /\ input_id_images = <<>>
    /\ id_embeds = <<>>
    /\ pipe_args = NotCalled
    /\ images = <<>>
    /\ has_nsfw_content = <<>>
    /\ output_paths = <<>>
    /\ error = ""
    /\ calls = <<>>
    /\ start_merge_step = None

\* After setup(): no call running; the 'outputs' folder does not exist yet.
Init ==
    /\ pc = "idle"
    /\ outputs = [exists |-> FALSE, files |-> {}]
    /\ NoLocals

\* predict() is entered: old outputs removed, the seed randomised if absent.
Begin ==
    /\ pc = "idle"
    /\ \E r \in Requests :
          /\ req' = r
          /\ seed' \in {RandomizeSeed(r.seed, rnd) : rnd \in RandomSeeds}
    /\ outputs' = RemoveOldOutputs(outputs)
    /\ pc' = "begun"
    /\ UNCHANGED <<styled, input_id_images, id_embeds, pipe_args, images,
                   has_nsfw_content, output_paths, error, calls,
                   start_merge_step>>

\* The checks of the prompt and the negative prompt, then apply_style.
Validate ==
    /\ pc = "begun"
    /\ error' = ValidationError(req)
    /\ calls' = calls \o [i \in 1..TokenizerCalls(req) |-> "tokenizer"]
    /\ styled' = IF ValidationError(req) = ""
                 THEN apply_style(req.style_name, req.prompt,
                                  req.negative_prompt)
                 ELSE styled
    /\ pc' = StageAfter(ValidationError(req), "validated")
    /\ UNCHANGED <<req, seed, input_id_images, id_embeds, pipe_args, images,
                   has_nsfw_content, output_paths, outputs, start_merge_step>>

\* The photos are loaded and each is searched for a face.
EmbedFaces ==
    /\ pc = "validated"
    /\ input_id_images' = LoadImages(Slots(req))
    /\ id_embeds' = EmbedList(LoadImages(Slots(req)))
    /\ calls' = calls \o [i \in 1..Len(LoadImages(Slots(req))) |->
                            "analyze_faces"]
    /\ error' = NoFaceError(EmbedList(LoadImages(Slots(req))))
    /\ pc' = StageAfter(NoFaceError(EmbedList(LoadImages(Slots(req)))),
                        "embedded")
    /\ UNCHANGED <<req, seed, styled, pipe_args, images, has_nsfw_content,
                   output_paths, outputs, start_merge_step>>

\* The generator is seeded and the pipeline called.
Generate ==
    /\ pc = "embedded"
    /\ start_merge_step' =
          StartMergeStep(req.style_strength_ratio, req.num_steps)
    /\ pipe_args' = PipeArgs(req, styled, input_id_images, id_embeds, seed,
                             start_merge_step')
    /\ images' = Generated(pipe_args')
    /\ calls' = calls \o <<"pipe">>
    /\ pc' = "generated"
    /\ UNCHANGED <<req, seed, styled, input_id_images, id_embeds,
                   has_nsfw_content, output_paths, error, outputs>>

\* run_safety_checker: one flag per image, whatever the classifier answers.
SafetyCheck ==
    /\ pc = "generated"
    /\ ~req.disable_safety_checker
    /\ \E flags \in [1..Len(images) -> BOOLEAN] : has_nsfw_content' = flags
    /\ calls' = calls \o <<"safety_checker">>
    /\ pc' = "checked"
    /\ UNCHANGED <<req, seed, styled, input_id_images, id_embeds, pipe_args,
                   images, output_paths, error, outputs, start_merge_step>>

\* The saving loop and the return of the paths.
Save ==
    /\ pc \in {"generated", "checked"}
    /\ pc = IF req.disable_safety_checker THEN "generated" ELSE "checked"
    /\ output_paths' = SavedPaths(images, req.disable_safety_checker,
                                  has_nsfw_content, 1)
    /\ outputs' = [outputs EXCEPT !.files = @ \cup Range(output_paths')]
    /\ calls' = calls \o [i \in 1..Len(output_paths') |-> "save"]
    /\ pc' = "done"
    /\ UNCHANGED <<req, seed, styled, input_id_images, id_embeds, pipe_args,
                   images, has_nsfw_content, error, start_merge_step>>

\* The call is over (returned or raised): its locals are gone, the folder stays.
Return ==
    /\ pc = "done"
    /\ pc' = "idle"
    /\ req' = NoRequest
    /\ seed' = None
    /\ styled' = <<>>
    /\ input_id_images' = <<>>
    /\ id_embeds' = <<>>
    /\ pipe_args' = NotCalled
    /\ images' = <<>>
    /\ has_nsfw_content' = <<>>
    /\ output_paths' = <<>>
    /\ error' = ""
    /\ calls' = <<>>
    /\ start_merge_step' = None
    /\ UNCHANGED outputs

Next ==
    \/ Begin
    \/ Validate
    \/ EmbedFaces
    \/ Generate
    \/ SafetyCheck
    \/ Save
    \/ Return

Spec == Init /\ [][Next]_vars

(* ------------- the start_merge_step computation on its own ------------ *)

\* Every num_steps and every whole style_strength_ratio the inputs allow.
InitMerge ==
    /\ pc = "merge_input"
    /\ req \in [num_steps : MinSteps..MaxSteps,
                style_strength_ratio : MinRatio..MaxRatio]
    /\ seed = None
    /\ styled = <<>>
    /\ input_id_images = <<>>
    /\ id_embeds = <<>>
    /\ pipe_args = NotCalled
    /\ images = <<>>
    /\ has_nsfw_content = <<>>
    /\ output_paths = <<>>
    /\ error = ""
    /\ calls = <<>>
    /\ start_merge_step = None
    /\ outputs = [exists |-> FALSE, files |-> {}]

ComputeMerge ==
    /\ pc = "merge_input"
    /\ start_merge_step' =
          StartMergeStep(req.style_strength_ratio, req.num_steps)
    /\ pc' = "merged"
    /\ UNCHANGED <<req, seed, styled, input_id_images, id_embeds, pipe_args,
                   images, has_nsfw_content, output_paths, error, calls,
                   outputs>>

NextMerge == ComputeMerge

SpecMerge == InitMerge /\ [][NextMerge]_vars

(* ======================= properties of predict() ====================== *)
(* The definitions below state what is checked; they read the request and  *)
(* the recorded calls directly and do not go through the operators above.  *)

\* A call is in progress (or just ended and its locals are still there).
Running == pc \notin {"idle", "merge_input", "merged"}

Invoked(component) == component \in Range(calls)

PipeCalled == pipe_args # NotCalled

\* The pipeline has just been called: pipe_args holds what it received, and
\* no later stage writes it.
PipeJustCalled == pc = "generated"

\* How often the trigger word occurs in a text.
TriggerCount(text) == Cardinality({i \in 1..Len(text) : text[i] = trigger_word})

\* The j-th smallest member of a set of numbers.
NthSmallest(S, j) == CHOOSE k \in S : Cardinality({m \in S : m <= k}) = j

\* The slots of the request that hold a photo.
SuppliedSlots(r) == {k \in 1..4 : Slots(r)[k] # None}

\* The supplied slots whose photo shows at least one face.
SlotsWithFace(r) == {k \in SuppliedSlots(r) : Slots(r)[k] > 0}

RECURSIVE SumFaces(_, _)
\* The faces in all the photos of the slots S together.
SumFaces(r, S) ==
    IF S = {} THEN 0
    ELSE LET k == CHOOSE x \in S : TRUE
         IN  Slots(r)[k] + SumFaces(r, S \ {k})

(* ---- C1 ---- *)
\* C1: the pipeline is reached only with a prompt that holds the trigger word
\* exactly once; a prompt holding it 0 times or 2 or more times ends the call
\* with a ValueError before any face detection and before the pipeline.
PromptTriggerExactlyOnce ==
    Running =>
        /\ (Invoked("pipe") \/ PipeCalled) => TriggerCount(req.prompt) = 1
        /\ TriggerCount(req.prompt) # 1 =>
              /\ pc \in {"begun", "done"}
              /\ pc = "done" => error \in {"Cannot find the trigger word",
                                           "Cannot use multiple trigger words"}
              /\ ~Invoked("analyze_faces")
              /\ ~Invoked("pipe")
              /\ ~PipeCalled

\* A prompt with two trigger words was refused.
PromptTriggerWitness ==
    /\ pc = "done"
    /\ TriggerCount(req.prompt) >= 2
    /\ error = "Cannot use multiple trigger words"

(* ---- C2 ---- *)
\* C2: a negative prompt that holds the trigger word ends the call with a
\* ValueError before face detection and before the pipeline; the pipeline is
\* never called for a request whose negative prompt holds the trigger word.
NegativePromptTriggerRejected ==
    Running =>
        /\ PipeCalled => TriggerCount(req.negative_prompt) = 0
        /\ TriggerCount(req.negative_prompt) > 0 =>
              /\ pc \in {"begun", "done"}
              /\ pc = "done" => error # ""
              /\ ~Invoked("analyze_faces")
              /\ ~Invoked("pipe")
              /\ ~PipeCalled

\* A valid prompt with a negative prompt holding the trigger word was refused.
NegativePromptWitness ==
    /\ pc = "done"
    /\ TriggerCount(req.prompt) = 1
    /\ TriggerCount(req.negative_prompt) > 0
    /\ error = "Cannot use trigger word in negative prompt"

(* ---- C3 ---- *)
\* C3: when none of the supplied photos shows a face the call ends with a
\* ValueError, the pipeline is not called and nothing is returned or written;
\* when some supplied photo shows a face the no-face error is not raised.
NoFaceRaises ==
    pc = "done" =>
        /\ SlotsWithFace(req) = {} =>
              /\ error # ""
              /\ ~Invoked("pipe")
              /\ ~PipeCalled
              /\ output_paths = <<>>
              /\ outputs.files = {}
        /\ (SlotsWithFace(req) = {} /\ TriggerCount(req.prompt) = 1
            /\ TriggerCount(req.negative_prompt) = 0) =>
              error = "No face detected"
        /\ SlotsWithFace(req) # {} => error # "No face detected"

\* Two photos were supplied, neither shows a face, and the call was refused.
NoFaceWitness ==
    /\ pc = "done"
    /\ Cardinality(SuppliedSlots(req)) >= 2
    /\ SlotsWithFace(req) = {}
    /\ error = "No face detected"

(* ---- C4 ---- *)
\* C4 as stated: id_embeds has one row per detected face, so its length is
\* the number of faces detected in all supplied photos together.
OneEmbeddingPerFace ==
    PipeCalled =>
        Len(pipe_args.id_embeds) = SumFaces(req, SuppliedSlots(req))

\* C4 as amended: id_embeds has one row per supplied photo in which a face
\* was detected, the embedding of that photo's first face; the other faces of
\* a photo add no row.
OneEmbeddingPerPhotoWithFace ==
    PipeJustCalled =>
        /\ Len(pipe_args.id_embeds) = Cardinality(SlotsWithFace(req))
        /\ \A j \in 1..Len(pipe_args.id_embeds) : pipe_args.id_embeds[j][2] = 1

\* The pipeline was called for a photo showing several faces.
SeveralFacesWitness ==
    /\ PipeCalled
    /\ \E k \in SuppliedSlots(req) : Slots(req)[k] >= 2

(* ---- C5 ---- *)
\* C5: the returned list is the generated images in generation order without
\* the flagged ones: with the checker on, image i is returned exactly when its
\* own flag is false, and no error is raised; with the checker disabled it is
\* not run and all num_outputs images are returned.
ReturnedImagesAreUnflagged ==
    (pc = "done" /\ PipeCalled) =>
        /\ error = ""
        /\ Len(images) = req.num_outputs
        /\ \A j, k \in 1..Len(output_paths) :
              j < k => output_paths[j][2] < output_paths[k][2]
        /\ IF req.disable_safety_checker
           THEN /\ ~Invoked("safety_checker")
                /\ output_paths = [i \in 1..req.num_outputs |-> <<"outputs", i - 1>>]
           ELSE /\ Invoked("safety_checker")
                /\ Len(has_nsfw_content) = req.num_outputs
                /\ \A i \in 1..req.num_outputs :
                      (<<"outputs", i - 1>> \in Range(output_paths))
                          <=> ~has_nsfw_content[i]

\* Two images were generated, the first flagged and dropped, the second
\* returned.
DroppedFirstWitness ==
    /\ pc = "done"
    /\ PipeCalled
    /\ ~req.disable_safety_checker
    /\ has_nsfw_content = <<TRUE, FALSE>>
    /\ output_paths = << <<"outputs", 1>> >>

(* ---- C6 ---- *)
\* The place of a component in the order of the stages.
StageRank(c) ==
    CASE c = "tokenizer" -> 1
      [] c = "analyze_faces" -> 2
      [] c = "pipe" -> 3
      [] c = "safety_checker" -> 4
      [] c = "save" -> 5

\* C6: in every call the stages run in the order validation, face embedding,
\* pipeline, safety filtering, saving; a stage that raises ends the call, so
\* no later stage runs and nothing is written for a refused request.
StagesInOrder ==
    Running =>
        /\ \A i \in 1..(Len(calls) - 1) :
              StageRank(calls[i]) <= StageRank(calls[i + 1])
        /\ Invoked("analyze_faces") => Invoked("tokenizer")
        /\ Invoked("pipe") => Invoked("analyze_faces")
        /\ Invoked("safety_checker") => Invoked("pipe")
        /\ Invoked("save") => Invoked("pipe")
        /\ (Invoked("save") /\ ~req.disable_safety_checker) =>
              Invoked("safety_checker")
        /\ error # "" =>
              /\ pc = "done"
              /\ ~Invoked("pipe")
              /\ ~Invoked("safety_checker")
              /\ ~Invoked("save")
              /\ outputs.files = {}
        /\ (error # "" /\ error # "No face detected") =>
              ~Invoked("analyze_faces")

\* A call went through all five stages.
AllStagesWitness ==
    /\ pc = "done"
    /\ \A c \in {"tokenizer", "analyze_faces", "pipe", "safety_checker", "save"} :
          Invoked(c)

(* ---- C7 ---- *)
\* C7: start_merge_step is min(floor(style_strength_ratio * num_steps / 100),
\* 30), lies in 0..30 and never exceeds num_steps.
MergeStepIsCappedPercentage ==
    pc = "merged" =>
        LET exact == (req.style_strength_ratio * req.num_steps) \div 100
        IN  /\ start_merge_step = IF exact > 30 THEN 30 ELSE exact
            /\ start_merge_step \in 0..30
            /\ start_merge_step <= req.num_steps

(* ---- C8 ---- *)
\* C8: the 'outputs' folder holds only what the latest call wrote: empty while
\* the call runs and after a refused call, exactly the returned paths after a
\* successful one (image_i.png for every index i that was not dropped).
OutputsHoldOnlyLastCall ==
    Running =>
        /\ outputs.exists
        /\ pc # "done" => outputs.files = {}
        /\ pc = "done" =>
              /\ outputs.files = Range(output_paths)
              /\ error # "" => outputs.files = {}
              /\ error = "" =>
                    outputs.files =
                        {<<"outputs", i - 1>> : i \in
                            {k \in 1..req.num_outputs :
                                req.disable_safety_checker
                                \/ ~has_nsfw_content[k]}}

\* A call left image_1.png alone, image_0.png having been dropped.
OutputsGapWitness ==
    /\ pc = "done"
    /\ error = ""
    /\ req.num_outputs = 2
    /\ outputs.files = {<<"outputs", 1>>}

(* ---- C9 ---- *)
\* What the pipeline is called with for a request that supplies its seed;
\* merge is the start_merge_step computed from its ratio and step count.
ExpectedArgs(r, merge) ==
    [prompt |-> apply_style(r.style_name, r.prompt, r.negative_prompt)[1],
     input_id_images |-> LoadImages(Slots(r)),
     negative_prompt |-> apply_style(r.style_name, r.prompt, r.negative_prompt)[2],
     num_images_per_prompt |-> r.num_outputs,
     num_inference_steps |-> r.num_steps,
     start_merge_step |-> merge,
     generator |-> r.seed,
     id_embeds |-> EmbedList(LoadImages(Slots(r)))]

\* C9: a supplied seed, 0 included, reaches the generator unchanged, and a
\* random one in 0..MAX_SEED replaces it only when it is absent; so the
\* pipeline's arguments are determined by a request that supplies its seed.
SuppliedSeedPassedUnchanged ==
    Running =>
        /\ req.seed # None => seed = req.seed
        /\ req.seed = None => seed \in 0..MAX_SEED
        /\ PipeCalled => pipe_args.generator = seed
        /\ (PipeJustCalled /\ req.seed # None) =>
              pipe_args = ExpectedArgs(req, start_merge_step)

\* The pipeline was called with the supplied seed 0.
SeedZeroWitness ==
    /\ PipeCalled
    /\ req.seed = 0
    /\ pipe_args.generator = 0

(* ---- C10 ---- *)
\* C10: the pipeline receives all supplied photos in slot order, and id_embeds
\* holds, in the same order, one row for each of them that shows a face: at
\* least 1 and at most as many rows as photos, as many exactly when every
\* supplied photo shows a face.
ImagesAndEmbedsAligned ==
    PipeJustCalled =>
        LET imgs == pipe_args.input_id_images
            embeds == pipe_args.id_embeds
            faced == {k \in 1..Len(imgs) : imgs[k] > 0}
        IN  /\ Len(imgs) = Cardinality(SuppliedSlots(req))
            /\ \A j \in 1..Len(imgs) :
                  imgs[j] = Slots(req)[NthSmallest(SuppliedSlots(req), j)]
            /\ Len(embeds) >= 1
            /\ Len(embeds) <= Len(imgs)
            /\ Len(embeds) = Cardinality(faced)
            /\ \A j \in 1..Len(embeds) :
                  embeds[j][1] = imgs[NthSmallest(faced, j)]
            /\ (Len(embeds) = Len(imgs)) <=> (\A k \in 1..Len(imgs) : imgs[k] > 0)

\* The pipeline was called with two photos, the second from a later slot
\* after an empty one, and only one of the two shows a face.
SkippedSlotWitness ==
    /\ PipeCalled
    /\ req.input_image2 = None
    /\ Len(pipe_args.input_id_images) = 2
    /\ Len(pipe_args.id_embeds) = 1

====
